---- MODULE Spec2Model ----
(***************************************************************************)
(* A model of terminus' PathGeometry (models/path_geometry.py) and of the  *)
(* junction clustering of OpenDriveIdMapper                                *)
(* (generators/opendrive_id_mapper.py).                                    *)
(*                                                                         *)
(* Points are coordinates along a street, in integer fine units; a         *)
(* geometry element is a Line(start_point, heading, length) running east   *)
(* (heading 0) or west (heading 180).  Python's 0-based indices are        *)
(* 1-based here.                                                           *)
(***************************************************************************)
EXTENDS Integers, Sequences, FiniteSets

VARIABLES elements, _waypoints, result,
          city, id_counter, junctions, roads, roads_to_id

vars == <<elements, _waypoints, result, city, id_counter, junctions, roads, roads_to_id>>

geometry_vars == <<elements, _waypoints, result>>

mapper_vars == <<city, id_counter, junctions, roads, roads_to_id>>

(***************************************************************************)
(* Bounds of the model                                                     *)
(***************************************************************************)
\* coordinates are 0..GridMax
GridMax == 2

\* a Line is 0..MaxElemLen long
MaxElemLen == 2

\* a path holds 1..MaxElems elements
MaxElems == 3

\* rounding a point snaps it to the nearest multiple of RoundUnit
RoundUnit == 2

\* an element's point_at_linear_offset returns None or a point of 0..CandidateMax
CandidateMax == 4

\* split_in is given at most MaxWaypoints waypoints
MaxWaypoints == 4

\* topology nodes are 1..NumNodes
NumNodes == 2

\* lanes are 1..NumLanes
NumLanes == 1

\* roads of the city are 1..NumRoads
NumRoads == 3

\* an exit waypoint is connected to at most MaxConnected entry waypoints
MaxConnected == 2

\* get_new_id is called at most until the counter reaches MaxId
MaxId == 8

Points == 0..GridMax

Headings == {0, 180}

Nodes == 1..NumNodes

Lanes == 1..NumLanes

(***************************************************************************)
(* geometry.point.Point                                                    *)
(***************************************************************************)
\* Point.rounded_to / Point.rounded: the nearest multiple of the precision
\* unit, halves rounded up
rounded_to(point, unit) == ((2 * point + unit) \div (2 * unit)) * unit

rounded(point) == rounded_to(point, RoundUnit)

(***************************************************************************)
(* The geometry element: a Line                                            *)
(***************************************************************************)
Dir(heading) == IF heading = 0 THEN 1 ELSE -1

Abs(x) == IF x < 0 THEN -x ELSE x

Line(p, h, l) == [start_point |-> p, heading |-> h, length |-> l]

Ok(v) == [ok |-> TRUE, value |-> v]

Raise(kind) == [ok |-> FALSE, error |-> kind]

Line_length(e) == e.length

Line_start_point(e) == e.start_point

Line_end_point(e) == e.start_point + Dir(e.heading) * e.length

Line_start_heading(e) == e.heading

Line_end_heading(e) == e.heading

Line_point_at_offset(e, d) ==
    IF d < 0 \/ d > e.length
    THEN Raise("OutOfRangeError")
    ELSE Ok(e.start_point + Dir(e.heading) * d)

Line_heading_at_offset(e, d) ==
    IF d < 0 \/ d > e.length
    THEN Raise("OutOfRangeError")
    ELSE Ok(e.heading)

Line_includes_point(e, p) ==
    LET d == (p - e.start_point) * Dir(e.heading)
    IN  0 <= d /\ d <= e.length

Line_offset_for_point(e, p) ==
    IF Line_includes_point(e, p)
    THEN Ok((p - e.start_point) * Dir(e.heading))
    ELSE Raise("PointNotOnElementError")

Line_can_be_merged_with(e, other) ==
    /\ e.heading = other.heading
    /\ Line_end_point(e) = other.start_point

Line_merge(e, other) == Line(e.start_point, e.heading, e.length + other.length)

RECURSIVE Line_split_from(_, _, _)
Line_split_from(e, pairs, k) ==
    IF k > Len(pairs) THEN <<>>
    ELSE <<Line(pairs[k][1], e.heading, Abs(pairs[k][2] - pairs[k][1]))>>
         \o Line_split_from(e, pairs, k + 1)

Line_split_into(e, pairs) ==
    IF \E k \in 1..Len(pairs) :
          \/ ~Line_includes_point(e, pairs[k][1])
          \/ ~Line_includes_point(e, pairs[k][2])
    THEN Raise("GeometryError")
    ELSE Ok(Line_split_from(e, pairs, 1))

Lines ==
    {e \in [start_point : Points, heading : Headings, length : 0..MaxElemLen] :
        Line_end_point(e) \in Points}

(***************************************************************************)
(* PathGeometry: accessors                                                 *)
(***************************************************************************)
start_point(es) == Line_start_point(es[1])

end_point(es) == Line_end_point(es[Len(es)])

RECURSIVE length_from(_, _)
length_from(es, i) ==
    IF i > Len(es) THEN 0 ELSE Line_length(es[i]) + length_from(es, i + 1)

length(es) == length_from(es, 1)

\* continuity: every element starts where the one before it ends
Continuous(es) ==
    \A i \in 1..(Len(es) - 1) : Line_end_point(es[i]) = Line_start_point(es[i + 1])

RECURSIVE PathsUpTo(_)
PathsUpTo(n) ==
    IF n = 1 THEN {<<e>> : e \in Lines}
    ELSE LET prev == PathsUpTo(n - 1)
         IN  prev \cup
             UNION {{Append(p, e) : e \in {l \in Lines : l.start_point = end_point(p)}} :
                      p \in {q \in prev : Len(q) = n - 1}}

Paths == PathsUpTo(MaxElems)

(***************************************************************************)
(* PathGeometry: queries                                                   *)
(***************************************************************************)
OffsetError(offset, es) ==
    [ok |-> FALSE, error |-> "ValueError", offset |-> offset, path_length |-> length(es)]

RECURSIVE heading_at_offset_from(_, _, _, _)
heading_at_offset_from(es, i, remaining_distance, offset) ==
    IF i > Len(es) THEN OffsetError(offset, es)
    ELSE IF Line_length(es[i]) < remaining_distance
         THEN heading_at_offset_from(es, i + 1, remaining_distance - Line_length(es[i]), offset)
         ELSE Line_heading_at_offset(es[i], remaining_distance)

heading_at_offset(es, offset) == heading_at_offset_from(es, 1, offset, offset)

\* point_at_offset with the comparison turned into <=
RECURSIVE point_at_offset_skipping_full(_, _, _, _)
point_at_offset_skipping_full(es, i, remaining_distance, offset) ==
    IF i > Len(es) THEN OffsetError(offset, es)
    ELSE IF Line_length(es[i]) <= remaining_distance
         THEN point_at_offset_skipping_full(es, i + 1,
                 remaining_distance - Line_length(es[i]), offset)
         ELSE Line_point_at_offset(es[i], remaining_distance)

RECURSIVE point_at_offset_from(_, _, _, _)
point_at_offset_from(es, i, remaining_distance, offset) ==
    IF i > Len(es) THEN OffsetError(offset, es)
    ELSE IF Line_length(es[i]) < remaining_distance
         THEN point_at_offset_from(es, i + 1, remaining_distance - Line_length(es[i]), offset)
         ELSE Line_point_at_offset(es[i], remaining_distance)

point_at_offset(es, offset) == point_at_offset_from(es, 1, offset, offset)

\* offset_for_point that does not accumulate the lengths it walks past
RECURSIVE offset_for_point_not_accumulating(_, _, _, _)
offset_for_point_not_accumulating(es, i, accumulated_distance, point) ==
    IF i > Len(es) THEN [ok |-> FALSE, error |-> "ValueError", point |-> point]
    ELSE IF Line_includes_point(es[i], point)
         THEN Ok(accumulated_distance + Line_offset_for_point(es[i], point).value)
         ELSE offset_for_point_not_accumulating(es, i + 1, accumulated_distance, point)

RECURSIVE offset_for_point_from(_, _, _, _)
offset_for_point_from(es, i, accumulated_distance, point) ==
    IF i > Len(es) THEN [ok |-> FALSE, error |-> "ValueError", point |-> point]
    ELSE IF Line_includes_point(es[i], point)
         THEN Ok(accumulated_distance + Line_offset_for_point(es[i], point).value)
         ELSE offset_for_point_from(es, i + 1, accumulated_distance + Line_length(es[i]), point)

offset_for_point(es, point) == offset_for_point_from(es, 1, 0, point)

heading_at_point(es, point) ==
    LET offset == offset_for_point(es, point)
    IN  IF offset.ok THEN heading_at_offset(es, offset.value) ELSE offset

\* the loop of point_at_linear_offset: candidates[i] is what element i's
\* point_at_linear_offset returned, <<>> for None and <<point>> for a point
\* the loop of point_at_linear_offset looking the point up before rounding it
RECURSIVE linear_matches_unrounded_lookup(_, _, _)
linear_matches_unrounded_lookup(candidates, i, matches) ==
    IF i > Len(candidates) THEN matches
    ELSE IF candidates[i] # <<>>
            /\ \A k \in 1..Len(matches) : matches[k] # candidates[i][1]
         THEN linear_matches_unrounded_lookup(candidates, i + 1,
                 Append(matches, rounded_to(candidates[i][1], RoundUnit)))
         ELSE linear_matches_unrounded_lookup(candidates, i + 1, matches)

RECURSIVE linear_matches(_, _, _)
linear_matches(candidates, i, matches) ==
    IF i > Len(candidates) THEN matches
    ELSE IF candidates[i] # <<>>
            /\ \A k \in 1..Len(matches) : matches[k] # rounded_to(candidates[i][1], RoundUnit)
         THEN linear_matches(candidates, i + 1,
                             Append(matches, rounded_to(candidates[i][1], RoundUnit)))
         ELSE linear_matches(candidates, i + 1, matches)

linear_select(matches, offset) ==
    IF Len(matches) = 1 THEN Ok(matches[1])
    ELSE IF Len(matches) > 2 THEN Raise("ValueError")
    ELSE IF offset < 0
         THEN (IF Len(matches) >= 1 THEN Ok(matches[1]) ELSE Raise("IndexError"))
         ELSE (IF Len(matches) >= 2 THEN Ok(matches[2]) ELSE Raise("IndexError"))

point_at_linear_offset(candidates, offset) ==
    linear_select(linear_matches(candidates, 1, <<>>), offset)

(***************************************************************************)
(* PathGeometry: transformations                                           *)
(***************************************************************************)
\* simplify that commits a merged primitive at once and goes on from the
\* element after it
RECURSIVE simplify_loop_committing_merges(_, _, _, _)
simplify_loop_committing_merges(es, index, previous_primitive, new_primitives) ==
    IF index > Len(es) THEN Append(new_primitives, previous_primitive)
    ELSE IF Line_can_be_merged_with(previous_primitive, es[index])
         THEN IF index + 1 > Len(es)
              THEN Append(new_primitives, Line_merge(previous_primitive, es[index]))
              ELSE simplify_loop_committing_merges(es, index + 2, es[index + 1],
                      Append(new_primitives, Line_merge(previous_primitive, es[index])))
         ELSE simplify_loop_committing_merges(es, index + 1, es[index],
                 Append(new_primitives, previous_primitive))

RECURSIVE simplify_loop(_, _, _, _)
simplify_loop(es, index, previous_primitive, new_primitives) ==
    IF index > Len(es) THEN Append(new_primitives, previous_primitive)
    ELSE IF Line_can_be_merged_with(previous_primitive, es[index])
         THEN simplify_loop(es, index + 1, Line_merge(previous_primitive, es[index]),
                            new_primitives)
         ELSE simplify_loop(es, index + 1, es[index],
                            Append(new_primitives, previous_primitive))

simplify(es) == simplify_loop(es, 2, es[1], <<>>)

center(waypoint) == waypoint.center

\* the loop of split_in for one element with an if for its while: it takes
\* one step at most
split_pairs_single_step(waypoints, waypoint_index, current_center, element, pairs) ==
    IF current_center = Line_end_point(element)
    THEN [ok |-> TRUE, waypoint_index |-> waypoint_index, pairs |-> pairs]
    ELSE IF waypoint_index + 1 > Len(waypoints) THEN Raise("IndexError")
    ELSE [ok |-> TRUE, waypoint_index |-> waypoint_index + 1,
          pairs |-> Append(pairs, <<current_center, center(waypoints[waypoint_index + 1])>>)]

\* the while loop of split_in for one element: advance the waypoint cursor
\* until the current center is the element's end point
RECURSIVE split_pairs(_, _, _, _, _)
split_pairs(waypoints, waypoint_index, current_center, element, pairs) ==
    IF current_center = Line_end_point(element)
    THEN [ok |-> TRUE, waypoint_index |-> waypoint_index, pairs |-> pairs]
    ELSE IF waypoint_index + 1 > Len(waypoints) THEN Raise("IndexError")
    ELSE LET next_center == center(waypoints[waypoint_index + 1])
         IN  split_pairs(waypoints, waypoint_index + 1, next_center, element,
                         Append(pairs, <<current_center, next_center>>))

RECURSIVE split_loop(_, _, _, _, _)
split_loop(es, k, waypoints, waypoint_index, primitives) ==
    IF k > Len(es) THEN Ok(primitives)
    ELSE IF waypoint_index > Len(waypoints) THEN Raise("IndexError")
    ELSE LET walked == split_pairs(waypoints, waypoint_index,
                                   center(waypoints[waypoint_index]), es[k], <<>>)
         IN  IF ~walked.ok THEN walked
             ELSE LET pieces == Line_split_into(es[k], walked.pairs)
                  IN  IF ~pieces.ok THEN pieces
                      ELSE split_loop(es, k + 1, waypoints, walked.waypoint_index,
                                      primitives \o pieces.value)

split_in(es, waypoints) == split_loop(es, 1, waypoints, 1, <<>>)

(***************************************************************************)
(* PathGeometry: the memoized waypoints                                    *)
(***************************************************************************)
\* self._waypoints is None or a list
NoWaypoints == [is_none |-> TRUE, list |-> <<>>]

WaypointList(ws) == [is_none |-> FALSE, list |-> ws]

\* Python's truth value of self._waypoints: None and [] are false
Truthy(cache) == ~cache.is_none /\ cache.list # <<>>

Waypoint(lane, point, heading, node) ==
    [lane |-> lane, center |-> point, heading |-> heading, node |-> node]

\* nodes_by_point[key] = node
DictSet(dict, key, node) ==
    [k \in (DOMAIN dict) \cup {key} |-> IF k = key THEN node ELSE dict[k]]

\* the for loop of waypoints(): one waypoint per element start point; a key
\* missing from nodes_by_point raises KeyError and leaves what was appended
RECURSIVE build_waypoints(_, _, _, _, _)
build_waypoints(es, i, nodes_by_point, lane, built) ==
    IF i > Len(es) THEN [ok |-> TRUE, list |-> built]
    ELSE LET point == Line_start_point(es[i])
         IN  IF rounded(point) \notin DOMAIN nodes_by_point
             THEN [ok |-> FALSE, list |-> built]
             ELSE build_waypoints(es, i + 1, nodes_by_point, lane,
                     Append(built, Waypoint(lane, point, Line_start_heading(es[i]),
                                            nodes_by_point[rounded(point)])))

\* the body of waypoints() when nothing is memoized: [ok, list], list being
\* the value self._waypoints is left with
compute_waypoints(es, lane, road_nodes, index) ==
    LET with_start == DictSet(index, rounded(start_point(es)), road_nodes[1])
        nodes_by_point == DictSet(with_start, rounded(end_point(es)),
                                  road_nodes[Len(road_nodes)])
        body == build_waypoints(es, 1, nodes_by_point, lane, <<>>)
        point == Line_end_point(es[Len(es)])
    IN  IF ~body.ok THEN body
        ELSE [ok |-> TRUE,
              list |-> Append(body.list,
                              Waypoint(lane, point, Line_end_heading(es[Len(es)]),
                                       nodes_by_point[rounded(point)]))]

\* the keys builder.index_nodes can return
Keys == {rounded(p) : p \in Points}

\* what builder.index_nodes(road_nodes) can return
NodeIndexes == UNION {[ks -> Nodes] : ks \in SUBSET Keys}

\* lane.road().nodes(): only its first and last node are read
RoadNodes == UNION {[1..n -> Nodes] : n \in 1..2}

Idle == [op |-> "none"]

Waypoints(lane, road_nodes, index) ==
    /\ IF Truthy(_waypoints)
       THEN /\ result' = [op |-> "waypoints", ok |-> TRUE, value |-> _waypoints.list,
                          built |-> FALSE, lane |-> lane, road_nodes |-> road_nodes,
                          index |-> index]
            /\ UNCHANGED _waypoints
       ELSE LET computed == compute_waypoints(elements, lane, road_nodes, index)
            IN  /\ _waypoints' = WaypointList(computed.list)
                /\ result' = IF computed.ok
                             THEN [op |-> "waypoints", ok |-> TRUE,
                                   value |-> computed.list, built |-> TRUE,
                                   lane |-> lane, road_nodes |-> road_nodes,
                                   index |-> index]
                             ELSE [op |-> "waypoints", ok |-> FALSE, error |-> "KeyError",
                                   built |-> TRUE, lane |-> lane,
                                   road_nodes |-> road_nodes, index |-> index]
    /\ UNCHANGED <<elements, mapper_vars>>

\* replace_element_at(index, new_element), the caller keeping the path
\* continuous
ReplaceElementAt(index, new_element) ==
    /\ index \in 1..Len(elements)
    /\ Continuous([elements EXCEPT ![index] = new_element])
    /\ elements' = [elements EXCEPT ![index] = new_element]
    /\ _waypoints' = NoWaypoints
    /\ result' = [op |-> "replace_element_at"]
    /\ UNCHANGED mapper_vars

Simplify ==
    /\ elements' = simplify(elements)
    /\ result' = [op |-> "simplify", before |-> elements]
    /\ UNCHANGED <<_waypoints, mapper_vars>>

NoCity == <<>>

NoMapper ==
    /\ city = NoCity
    /\ id_counter = 0
    /\ junctions = <<>>
    /\ roads = <<>>
    /\ roads_to_id = <<>>

Init ==
    /\ elements \in Paths
    /\ _waypoints = NoWaypoints
    /\ result = Idle
    /\ NoMapper

Next ==
    \/ \E lane \in Lanes, road_nodes \in RoadNodes, index \in NodeIndexes :
          Waypoints(lane, road_nodes, index)
    \/ \E index \in 1..MaxElems, new_element \in Lines :
          ReplaceElementAt(index, new_element)
    \/ Simplify

Spec == Init /\ [][Next]_vars

(***************************************************************************)
(* The queries and transformations of one PathGeometry                     *)
(***************************************************************************)
PointAtOffset(offset) ==
    /\ result' = [op |-> "point_at_offset", offset |-> offset,
                  out |-> point_at_offset(elements, offset)]
    /\ UNCHANGED <<elements, _waypoints, mapper_vars>>

HeadingAtOffset(offset) ==
    /\ result' = [op |-> "heading_at_offset", offset |-> offset,
                  out |-> heading_at_offset(elements, offset)]
    /\ UNCHANGED <<elements, _waypoints, mapper_vars>>

OffsetForPoint(point) ==
    /\ result' = [op |-> "offset_for_point", point |-> point,
                  out |-> offset_for_point(elements, point)]
    /\ UNCHANGED <<elements, _waypoints, mapper_vars>>

HeadingAtPoint(point) ==
    /\ result' = [op |-> "heading_at_point", point |-> point,
                  out |-> heading_at_point(elements, point)]
    /\ UNCHANGED <<elements, _waypoints, mapper_vars>>

\* the offsets of a set, in ascending order
RECURSIVE Ascending(_)
Ascending(offsets) ==
    IF offsets = {} THEN <<>>
    ELSE LET least == CHOOSE d \in offsets : \A o \in offsets : d <= o
         IN  <<least>> \o Ascending(offsets \ {least})

\* waypoints on the path at the given offsets, in path order
WaypointsAt(es, offsets) ==
    LET ds == Ascending(offsets)
    IN  [k \in 1..Len(ds) |->
            Waypoint(1, point_at_offset(es, ds[k]).value,
                     heading_at_offset(es, ds[k]).value, 1)]

\* split_in(waypoints) returns a new PathGeometry and leaves this one alone
SplitIn(offsets) ==
    /\ result' = [op |-> "split_in", offsets |-> offsets,
                  out |-> split_in(elements, WaypointsAt(elements, offsets))]
    /\ UNCHANGED <<elements, _waypoints, mapper_vars>>

WaypointOffsets(es) ==
    {offsets \in SUBSET (0..length(es)) :
        offsets # {} /\ Cardinality(offsets) <= MaxWaypoints}

\* a query leaves the PathGeometry as it is, so every (geometry, answer) pair
\* is reached by asking each query of a geometry no query was asked of yet
Unasked == result.op \in {"none", "simplify"}

NextGeometry ==
    \/ Unasked /\ \E offset \in (-1)..(length(elements) + 1) : PointAtOffset(offset)
    \/ Unasked /\ \E offset \in (-1)..(length(elements) + 1) : HeadingAtOffset(offset)
    \/ Unasked /\ \E point \in Points : OffsetForPoint(point)
    \/ Unasked /\ \E point \in Points : HeadingAtPoint(point)
    \/ Unasked /\ \E offsets \in WaypointOffsets(elements) : SplitIn(offsets)
    \/ Unasked /\ Simplify

SpecGeometry == Init /\ [][NextGeometry]_vars

(***************************************************************************)
(* point_at_linear_offset: what each element answers is the environment's  *)
(***************************************************************************)
Candidates == {<<>>} \cup {<<p>> : p \in 0..CandidateMax}

PointAtLinearOffset(reference_point, offset, candidates) ==
    /\ Len(candidates) = Len(elements)
    /\ result' = [op |-> "point_at_linear_offset", offset |-> offset,
                  candidates |-> candidates,
                  out |-> point_at_linear_offset(candidates, offset)]
    /\ UNCHANGED <<elements, _waypoints, mapper_vars>>

\* the paths that leave point 0 eastwards
StraightPaths == {es \in Paths : start_point(es) = 0 /\ \A i \in 1..Len(es) : es[i].heading = 0}

InitLinear ==
    /\ elements \in StraightPaths
    /\ _waypoints = NoWaypoints
    /\ result = Idle
    /\ NoMapper

NextLinear ==
    /\ Unasked
    /\ \E reference_point \in Points, offset \in (-1)..1,
          candidates \in [1..Len(elements) -> Candidates] :
          PointAtLinearOffset(reference_point, offset, candidates)

SpecLinear == InitLinear /\ [][NextLinear]_vars

(***************************************************************************)
(* OpenDriveIdMapper                                                       *)
(***************************************************************************)
\* a city: road r runs from its entry waypoint 2r-1 to its end waypoint 2r,
\* which may be an exit connected to entry waypoints of the city
EntryWaypoints == {2 * r - 1 : r \in 1..NumRoads}

ConnectedLists ==
    {ws \in UNION {[1..n -> EntryWaypoints] : n \in 0..MaxConnected} :
        \A i, j \in 1..Len(ws) : i # j => ws[i] # ws[j]}

CityWaypoint(id, is_exit, connected) ==
    [id |-> id, is_exit |-> is_exit, connected_waypoints |-> connected]

RoadsOf(r) ==
    {[id |-> r, waypoints |-> <<CityWaypoint(2 * r - 1, FALSE, <<>>), last>>] :
        last \in {CityWaypoint(2 * r, FALSE, <<>>)}
                 \cup {CityWaypoint(2 * r, TRUE, ws) : ws \in ConnectedLists}}

Cities == {c \in [1..NumRoads -> UNION {RoadsOf(r) : r \in 1..NumRoads}] :
              \A r \in 1..NumRoads : c[r].id = r}

Connection(_exit, _entry) == [entry |-> _entry, exit |-> _exit]

\* Junction.contains_waypoint
contains_waypoint(junction, waypoint) ==
    \E k \in 1..Len(junction.connections) :
        \/ junction.connections[k].entry = waypoint
        \/ junction.connections[k].exit = waypoint

\* Junction.add_connection
add_connection(junction, connection) ==
    [junction EXCEPT !.connections = Append(@, connection)]

\* the connections of one exit waypoint, one per connected waypoint
RECURSIVE exit_connections(_, _)
exit_connections(exit_waypoint, k) ==
    IF k > Len(exit_waypoint.connected_waypoints) THEN <<>>
    ELSE <<Connection(exit_waypoint.id, exit_waypoint.connected_waypoints[k])>>
         \o exit_connections(exit_waypoint, k + 1)

RECURSIVE road_connections(_, _)
road_connections(road, k) ==
    IF k > Len(road.waypoints) THEN <<>>
    ELSE (IF road.waypoints[k].is_exit
          THEN exit_connections(road.waypoints[k], 1) ELSE <<>>)
         \o road_connections(road, k + 1)

RECURSIVE connections_from(_, _)
connections_from(city_roads, r) ==
    IF r > Len(city_roads) THEN <<>>
    ELSE road_connections(city_roads[r], 1) \o connections_from(city_roads, r + 1)

create_connections(city_roads) == connections_from(city_roads, 1)

\* the index of the first junction that holds the entry or the exit of the
\* connection, 0 when there is none
first_junction(js, entry_exit) ==
    LET found == {k \in 1..Len(js) :
                     \/ contains_waypoint(js[k], entry_exit.entry)
                     \/ contains_waypoint(js[k], entry_exit.exit)}
    IN  IF found = {} THEN 0 ELSE CHOOSE k \in found : \A o \in found : k <= o

\* the loop of create_junctions: [junctions, id_counter]
RECURSIVE junctions_loop(_, _, _, _)
junctions_loop(entry_exits, k, js, counter) ==
    IF k > Len(entry_exits) THEN [junctions |-> js, id_counter |-> counter]
    ELSE LET at == first_junction(js, entry_exits[k])
         IN  IF at # 0
             THEN junctions_loop(entry_exits, k + 1,
                     [js EXCEPT ![at] = add_connection(js[at], entry_exits[k])], counter)
             ELSE junctions_loop(entry_exits, k + 1,
                     Append(js, add_connection([connections |-> <<>>, id |-> counter + 1],
                                               entry_exits[k])),
                     counter + 1)

create_junctions(city_roads, counter) ==
    junctions_loop(create_connections(city_roads), 1, <<>>, counter)

\* run(): create_junctions, create_roads (from_base_road returns nothing) and
\* map_roads, the id counter starting at 0
Run ==
    LET made == create_junctions(city, 0)
    IN  /\ junctions' = made.junctions
        /\ roads' = [r \in 1..Len(city) |-> "None"]
        /\ roads_to_id' = [r \in 1..Len(city) |-> made.id_counter + r]
        /\ id_counter' = made.id_counter + Len(city)
        /\ result' = [op |-> "run"]
        /\ UNCHANGED <<city, elements, _waypoints>>

GetNewId ==
    /\ result.op \in {"run", "get_new_id"}
    /\ id_counter < MaxId
    /\ id_counter' = id_counter + 1
    /\ result' = [op |-> "get_new_id", out |-> id_counter + 1]
    /\ UNCHANGED <<city, junctions, roads, roads_to_id, elements, _waypoints>>

InitMapper ==
    /\ city \in Cities
    /\ id_counter = 0
    /\ junctions = <<>>
    /\ roads = <<>>
    /\ roads_to_id = <<>>
    /\ elements = <<>>
    /\ _waypoints = NoWaypoints
    /\ result = Idle

NextMapper ==
    \/ Run
    \/ GetNewId

SpecMapper == InitMapper /\ [][NextMapper]_vars

(***************************************************************************)
(* Properties                                                              *)
(***************************************************************************)
\* the length of the first i elements
PrefixLength(es, i) == length(SubSeq(es, 1, i))

\* the element a path offset falls in: the first whose end is not before it
ElementAt(es, offset) ==
    CHOOSE i \in 1..Len(es) :
        /\ offset <= PrefixLength(es, i)
        /\ \A j \in 1..(i - 1) : offset > PrefixLength(es, j)

\* C1: when waypoints() fails on a missing node, the geometry is left as it
\* was before the call: nothing is memoized
C1_FailedWaypointsLeaveNoCache ==
    (result.op = "waypoints" /\ ~result.ok) => ~Truthy(_waypoints)

\* C2: the memoized waypoints are invalidated whenever the element sequence
\* changes; here, when simplify() merged elements
C2_SimplifyInvalidatesWaypoints ==
    (result.op = "simplify" /\ result.before # elements) => ~Truthy(_waypoints)

\* every element start point and the end point have a key in the index
Resolves(es, index) ==
    /\ \A i \in 1..Len(es) : rounded(Line_start_point(es[i])) \in DOMAIN index
    /\ rounded(end_point(es)) \in DOMAIN index

\* C7: when every point resolves in the node index, waypoints() yields n+1
\* waypoints in path order, each element's start point with its start heading
\* and last the path's end point with the last element's end heading
C7_OneWaypointPerElementPlusEnd ==
    (result.op = "waypoints" /\ Resolves(elements, result.index)) =>
        /\ result.ok
        /\ Len(result.value) = Len(elements) + 1
        /\ \A i \in 1..Len(elements) :
              /\ result.value[i].center = Line_start_point(elements[i])
              /\ result.value[i].heading = Line_start_heading(elements[i])
        /\ result.value[Len(elements) + 1].center = end_point(elements)
        /\ result.value[Len(elements) + 1].heading
              = Line_end_heading(elements[Len(elements)])

\* C8: a list waypoints() has just built binds its first waypoint to the
\* road's first node and its last waypoint to the road's last node
C8_EndpointsBoundToFirstAndLastNode ==
    (result.op = "waypoints" /\ result.ok /\ result.built) =>
        /\ result.value[1].node = result.road_nodes[1]
        /\ result.value[Len(result.value)].node
              = result.road_nodes[Len(result.road_nodes)]

\* C3 as claimed: offset_for_point(point_at_offset(d)) = d for 0 <= d <= length()
C3_RoundTrip ==
    (result.op = "point_at_offset" /\ 0 <= result.offset
        /\ result.offset <= length(elements)) =>
        /\ result.out.ok
        /\ offset_for_point(elements, result.out.value) = Ok(result.offset)

\* the offsets at which the path passes through a point
OffsetsOf(es, point) ==
    {d \in 0..length(es) : point_at_offset(es, d) = Ok(point)}

\* C3 as amended: offset_for_point(point_at_offset(d)) is the smallest offset
\* at which the path passes through that point, which is d when the path does
\* not pass through it before d
C3_RoundTripToFirstVisit ==
    (result.op = "point_at_offset" /\ 0 <= result.offset
        /\ result.offset <= length(elements)) =>
        /\ result.out.ok
        /\ LET back == offset_for_point(elements, result.out.value)
               visits == OffsetsOf(elements, result.out.value)
           IN  /\ back.ok
               /\ back.value \in visits
               /\ \A d \in visits : back.value <= d
               /\ (\A d \in visits : result.offset <= d) => back.value = result.offset

\* point_at_offset answered for an offset past the first element and past a
\* zero-length element, on a point the path had not passed through before
C3_Witness ==
    /\ result.op = "point_at_offset"
    /\ Len(elements) = 3
    /\ elements[2].length = 0
    /\ result.offset > PrefixLength(elements, 2)
    /\ result.offset <= length(elements)
    /\ offset_for_point(elements, result.out.value) = Ok(result.offset)

\* C4: simplify() is idempotent: simplifying the simplified elements changes
\* nothing, and no element of them can be merged with the one after it
C4_SimplifyIdempotent ==
    result.op = "simplify" =>
        /\ simplify(elements) = elements
        /\ \A i \in 1..(Len(elements) - 1) :
              ~Line_can_be_merged_with(elements[i], elements[i + 1])

\* simplify() merged three elements into one
C4_Witness ==
    /\ result.op = "simplify"
    /\ Len(result.before) = 3
    /\ Len(elements) = 1
    /\ \A i \in 1..3 : result.before[i].length > 0 \/ i = 2

\* the waypoints given to split_in include every element's end point
IncludesElementEnds(es, offsets) ==
    \A i \in 1..Len(es) : PrefixLength(es, i) \in offsets

\* C5 as claimed: for waypoints on the path, in path order, that include every
\* element's end point, split_in returns a path of the same length
C5_SplitPreservesLength ==
    (result.op = "split_in" /\ IncludesElementEnds(elements, result.offsets)) =>
        /\ result.out.ok
        /\ length(result.out.value) = length(elements)

\* C5 as amended: the same, for waypoints whose first is at the path's start
\* point; the elements returned run continuously from the path's start point
\* to its end point (none is returned for a path of length 0)
C5_SplitFromStartPreservesLength ==
    (result.op = "split_in" /\ IncludesElementEnds(elements, result.offsets)
        /\ 0 \in result.offsets) =>
        /\ result.out.ok
        /\ length(result.out.value) = length(elements)
        /\ Continuous(result.out.value)
        /\ (result.out.value = <<>>) = (length(elements) = 0)
        /\ result.out.value # <<>> =>
              /\ start_point(result.out.value) = start_point(elements)
              /\ end_point(result.out.value) = end_point(elements)

\* split_in cut an element of a two-element path at a waypoint inside it
C5_Witness ==
    /\ result.op = "split_in"
    /\ Len(elements) = 2
    /\ IncludesElementEnds(elements, result.offsets)
    /\ 0 \in result.offsets
    /\ \E d \in result.offsets : \A i \in 0..Len(elements) : d # PrefixLength(elements, i)
    /\ result.out.ok
    /\ Len(result.out.value) = 3

\* C6: point_at_offset and heading_at_offset fail with the offset and the path
\* length for an offset past length(); for 0 <= offset <= length() they answer
\* what the first element the remaining offset fits in answers for it
C6_OffsetQueries ==
    /\ result.op \in {"point_at_offset", "heading_at_offset"} =>
          /\ result.offset > length(elements) =>
                result.out = [ok |-> FALSE, error |-> "ValueError",
                              offset |-> result.offset,
                              path_length |-> length(elements)]
          /\ (0 <= result.offset /\ result.offset <= length(elements)) =>
                LET i == ElementAt(elements, result.offset)
                    remaining == result.offset - PrefixLength(elements, i - 1)
                IN  /\ result.out.ok
                    /\ result.op = "point_at_offset" =>
                          result.out = Line_point_at_offset(elements[i], remaining)
                    /\ result.op = "heading_at_offset" =>
                          result.out = Line_heading_at_offset(elements[i], remaining)

\* point_at_offset answered for the offset where the first of several elements
\* ends
C6_Witness ==
    /\ result.op = "point_at_offset"
    /\ Len(elements) >= 2
    /\ result.offset = PrefixLength(elements, 1)
    /\ result.offset > 0
    /\ result.offset < length(elements)
    /\ result.out = Ok(Line_end_point(elements[1]))

\* the distinct rounded candidates, and them in the order the elements gave
\* them
RoundedCandidates(candidates) ==
    {rounded_to(candidates[i][1], RoundUnit) :
        i \in {k \in 1..Len(candidates) : candidates[k] # <<>>}}

FirstGiven(candidates, among) ==
    LET at == CHOOSE i \in 1..Len(candidates) :
                /\ candidates[i] # <<>>
                /\ rounded_to(candidates[i][1], RoundUnit) \in among
                /\ \A j \in 1..(i - 1) :
                      candidates[j] = <<>>
                      \/ rounded_to(candidates[j][1], RoundUnit) \notin among
    IN  rounded_to(candidates[at][1], RoundUnit)

\* C9: point_at_linear_offset returns the only distinct candidate; of two, the
\* first for a negative offset and the second otherwise; it raises for none
\* and for more than two
C9_LinearOffsetSelection ==
    result.op = "point_at_linear_offset" =>
        LET distinct == RoundedCandidates(result.candidates)
            first == FirstGiven(result.candidates, distinct)
        IN  /\ Cardinality(distinct) = 1 => result.out = Ok(first)
            /\ (Cardinality(distinct) = 2 /\ result.offset < 0) =>
                  result.out = Ok(first)
            /\ (Cardinality(distinct) = 2 /\ result.offset >= 0) =>
                  result.out = Ok(FirstGiven(result.candidates, distinct \ {first}))
            /\ (Cardinality(distinct) = 0 \/ Cardinality(distinct) > 2) =>
                  ~result.out.ok

\* three elements answered, two of them with points that round to the same
\* one, and the offset is not negative: the second distinct one is returned
C9_Witness ==
    /\ result.op = "point_at_linear_offset"
    /\ Len(result.candidates) = 3
    /\ \A i \in 1..3 : result.candidates[i] # <<>>
    /\ result.candidates[1] # result.candidates[2]
    /\ rounded_to(result.candidates[1][1], RoundUnit)
          = rounded_to(result.candidates[2][1], RoundUnit)
    /\ result.offset >= 0
    /\ result.out = Ok(rounded_to(result.candidates[3][1], RoundUnit))

\* the waypoints of a junction's connections
JunctionWaypoints(junction) ==
    {junction.connections[k].entry : k \in 1..Len(junction.connections)}
    \cup {junction.connections[k].exit : k \in 1..Len(junction.connections)}

\* C10: after run(), every connection is in exactly one junction and no
\* waypoint is in the connections of two junctions
C10_JunctionsShareNoWaypoint ==
    result.op = "run" =>
        /\ LET made == create_connections(city)
           IN  \A c \in 1..Len(made) :
                  Cardinality({k \in 1..Len(junctions) :
                      \E n \in 1..Len(junctions[k].connections) :
                          junctions[k].connections[n] = made[c]}) = 1
        /\ \A a, b \in 1..Len(junctions) :
              a # b => JunctionWaypoints(junctions[a]) \cap JunctionWaypoints(junctions[b]) = {}

====
